---- MODULE Spec2Model ----
(***************************************************************************)
(* frds/measures/base.py: the Measure base class, its two category         *)
(* refinements, and the operations a holder of a measure can perform.      *)
(*                                                                         *)
(* The state is one caller-owned list object (the list handed to the       *)
(* constructor), at most one live measure instance, the outcome of the     *)
(* last operation, and the interpreter's string-hash seed, which fixes the *)
(* iteration order of every set built in the process.                      *)
(***************************************************************************)
EXTENDS Integers, Sequences, FiniteSets, TLC

\* ------------------------------------------------------------------ bounds
MaxLen == 3          \* longest dependency list explored

\* ------------------------------------------------------------ input domains
None == "None"       \* Python's None: the unset sentinel (base.py:20-21)

Names == {"ROA", "Beta"}

\* frds.data.Dataset descriptors, read only through .source and .table_id.
\* table_id is a (source, library, table) triple.  Nothing in base.py ties
\* table_id[1] to source, so the domain holds one descriptor where they differ.
Datasets ==
  { [source |-> "WRDS", table_id |-> <<"WRDS", "bank", "call_reports">>],
    [source |-> "WRDS", table_id |-> <<"WRDS", "comp", "funda">>],
    [source |-> "FRB",  table_id |-> <<"FRB", "bank", "call_reports">>],
    [source |-> "FRB",  table_id |-> <<"WRDS", "bank", "call_reports">>] }

RECURSIVE SeqsUpTo(_, _)
SeqsUpTo(S, n) ==
  IF n = 0 THEN { <<>> }
  ELSE LET shorter == SeqsUpTo(S, n - 1)
       IN  shorter \cup { Append(s, x) : s \in { t \in shorter : Len(t) = n - 1 }, x \in S }

DepLists == SeqsUpTo(Datasets, MaxLen)

Range(s) == { s[i] : i \in 1..Len(s) }

NoDup(s) == \A i, j \in 1..Len(s) : i # j => s[i] # s[j]

\* ------------------------------------------------------------ class table
\* The three classes of base.py, and the client subtypes a caller may derive
\* from them (a subtype is described by its parent and by the attributes its
\* class body defines).
RepoClasses == {"Measure", "CorporateFinanceMeasure", "BankingMeasure"}

ClientClasses == {"ROA", "ZScore", "Spread", "RollingBeta", "Stub", "Plain", "Relay"}

Classes == RepoClasses \cup ClientClasses

Parent(c) ==
  CASE c = "CorporateFinanceMeasure" -> "Measure"
    [] c = "BankingMeasure"          -> "Measure"
    [] c = "ROA"                     -> "CorporateFinanceMeasure"
    [] c = "ZScore"                  -> "BankingMeasure"
    [] c = "Stub"                    -> "BankingMeasure"
    [] c = "Spread"                  -> "Measure"
    [] c = "RollingBeta"             -> "CorporateFinanceMeasure"
    [] c = "Plain"                   -> "Measure"
    [] c = "Relay"                   -> "CorporateFinanceMeasure"
    [] OTHER                         -> None

\* Attributes assigned or defined in the class body of c.
Defines(c) ==
  CASE c = "Measure" ->
         {"_category", "url_docs", "__init__", "name", "__str__",
          "datasets_required", "data_sources", "data_tables",
          "description", "category", "estimate"}
    [] c = "CorporateFinanceMeasure" -> {"_category", "__init__"}
    [] c = "BankingMeasure"          -> {"_category", "__init__"}
    [] c = "ROA"                     -> {"estimate", "url_docs"}
    [] c = "ZScore"                  -> {"estimate"}
    [] c = "Stub"                    -> {}
    [] c = "Spread"                  -> {"estimate", "_category"}
    [] c = "RollingBeta"             -> {"estimate", "__str__"}
    [] c = "Plain"                   -> {"estimate"}
    [] c = "Relay"                   -> {"estimate"}
    [] OTHER                         -> {}

\* Faulty variant: the @abc.abstractmethod decorator left off estimate
AbstractIn_undecorated(c) == {}

\* Methods marked @abc.abstractmethod in the class body of c.
AbstractIn(c) == IF c = "Measure" THEN {"estimate"} ELSE {}

\* Value bound to a class attribute in the class body of c.
ClassAttr(c, a) ==
  CASE a = "_category" /\ c = "Measure"                 -> None
    [] a = "_category" /\ c = "CorporateFinanceMeasure" -> "CORPORATE_FINANCE"
    [] a = "_category" /\ c = "BankingMeasure"          -> "BANKING"
    [] a = "_category" /\ c = "Spread"                  -> "MARKET_MICROSTRUCTURE"
    [] a = "url_docs"  /\ c = "Measure"                 -> None
    [] a = "url_docs"  /\ c = "ROA"                     -> "https://frds.io/measures/roa"
    [] OTHER                                            -> None

Category == {"CORPORATE_FINANCE", "BANKING", "MARKET_MICROSTRUCTURE"}

\* Attribute lookup along the (single-inheritance) method resolution order:
\* the most derived class, starting at c, whose body defines a.
RECURSIVE Resolve(_, _)
Resolve(c, a) ==
  IF c = None THEN None
  ELSE IF a \in Defines(c) THEN c
  ELSE Resolve(Parent(c), a)

RECURSIVE IsSubclass(_, _)
IsSubclass(c, base) ==
  IF c = None THEN FALSE
  ELSE IF c = base THEN TRUE
  ELSE IsSubclass(Parent(c), base)

\* abc.ABC: the abstract methods of c are the names whose resolution still
\* lands on a definition decorated with @abc.abstractmethod.
AbstractMethods(c) ==
  { m \in {"estimate"} : Resolve(c, m) # None /\ m \in AbstractIn(Resolve(c, m)) }

\* ------------------------------------------------- list(set(generator))
\* A set is an open-addressing table of 8 slots; an element goes to the first
\* free slot at or after hash mod 8, and list(...) walks the slots in order.
\* The hash of a string depends on the process-wide seed.  At most four
\* distinct elements are ever inserted, so the table is never resized.
Seeds == {0, 7}

StrCode(s) ==
  CASE s = "WRDS"         -> 1
    [] s = "FRB"          -> 2
    [] s = "bank"         -> 3
    [] s = "comp"         -> 4
    [] s = "call_reports" -> 5
    [] s = "funda"        -> 6
    [] OTHER              -> 0

StrHash(seed, s) == StrCode(s) * (seed + 1)

TupleHash(seed, t) == StrHash(seed, t[1]) * 9 + StrHash(seed, t[2]) * 3 + StrHash(seed, t[3])

EmptyTable == [i \in 1..8 |-> <<>>]

RECURSIVE set_add(_, _, _)
set_add(t, v, i) ==
  IF t[i] = <<>> THEN [t EXCEPT ![i] = <<v>>]
  ELSE IF t[i] = <<v>> THEN t
  ELSE set_add(t, v, (i % 8) + 1)

\* keys: the generator's items in order, each with its hash
RECURSIVE set_of(_, _)
set_of(keys, n) ==
  IF n = 0 THEN EmptyTable
  ELSE set_add(set_of(keys, n - 1), keys[n].v, (keys[n].h % 8) + 1)

RECURSIVE list_of(_, _)
list_of(t, i) ==
  IF i = 0 THEN <<>>
  ELSE list_of(t, i - 1) \o t[i]

\* ------------------------------------------------------------------ state
VARIABLES
  heap,                    \* list objects: reference -> contents
  cls,                     \* type(self) of the live instance, None before construction
  self_name,               \* self._name
  self_datasets_required,  \* self._datasets_required: a reference into heap
  built,                   \* the arguments the constructor was called with
  got,                     \* the reference the caller got from datasets_required
  op,                      \* the last operation performed
  on,                      \* the class it was invoked on
  ret,                     \* the value it returned
  err,                     \* the exception it raised, None if it returned
  trace,                   \* the estimate bodies it executed, in call order
  hashseed                 \* the interpreter's string-hash seed

vars == <<heap, cls, self_name, self_datasets_required, built, got,
          op, on, ret, err, trace, hashseed>>

ArgList == "argList"     \* the list object the caller builds and passes in

\* The contents of the dependency list the measure holds.
Deps == heap[self_datasets_required]

\* ---------------------------------------------------------- method bodies
\* Measure.__init__
Measure_init(n, ref) == [name |-> n, datasets_required |-> ref]

\* CorporateFinanceMeasure.__init__: super().__init__(*args, **kwargs)
CorporateFinanceMeasure_init(n, ref) == Measure_init(n, ref)

\* BankingMeasure.__init__: super().__init__(*args, **kwargs)
BankingMeasure_init(n, ref) == Measure_init(n, ref)

\* type(c).__call__: the initializer the MRO of c resolves to
Initializer(c, n, ref) ==
  CASE Resolve(c, "__init__") = "CorporateFinanceMeasure" -> CorporateFinanceMeasure_init(n, ref)
    [] Resolve(c, "__init__") = "BankingMeasure"          -> BankingMeasure_init(n, ref)
    [] OTHER                                              -> Measure_init(n, ref)

\* Measure.name
name == self_name

\* Faulty variant: __str__ gives the class name instead of the configured name
Measure_str_classname == cls

\* Measure.__str__
Measure_str == self_name

\* RollingBeta.__str__ (a client override): the name with its parameter
RollingBeta_str == <<self_name, "(window=60)">>

\* str(instance)
Str == IF Resolve(cls, "__str__") = "Measure" THEN Measure_str ELSE RollingBeta_str

\* Measure.datasets_required: returns the stored reference itself
datasets_required == self_datasets_required

\* list(set(dta.source for dta in deps)) under hash seed `seed`
sources_of(seed, deps) ==
  LET keys == [i \in 1..Len(deps) |->
                 [h |-> StrHash(seed, deps[i].source), v |-> deps[i].source]]
  IN  list_of(set_of(keys, Len(keys)), 8)

\* list(set(dta.table_id for dta in deps)) under hash seed `seed`
tables_of(seed, deps) ==
  LET keys == [i \in 1..Len(deps) |->
                 [h |-> TupleHash(seed, deps[i].table_id), v |-> deps[i].table_id]]
  IN  list_of(set_of(keys, Len(keys)), 8)

\* Faulty variant: the comprehension without set(): no deduplication
data_sources_nodedup == [i \in 1..Len(Deps) |-> Deps[i].source]

\* Faulty variant: the source is read from table_id instead of from the descriptor
data_sources_from_table_id ==
  sources_of(hashseed, [i \in 1..Len(Deps) |->
                          [source |-> Deps[i].table_id[1], table_id |-> Deps[i].table_id]])

\* Measure.data_sources
data_sources == sources_of(hashseed, Deps)

\* Faulty variant: the comprehension without set(): no deduplication
data_tables_nodedup == [i \in 1..Len(Deps) |-> Deps[i].table_id]

\* Faulty variant: the triple is rebuilt from the descriptor's own source
data_tables_own_source ==
  tables_of(hashseed, [i \in 1..Len(Deps) |->
                         [source |-> Deps[i].source,
                          table_id |-> <<Deps[i].source, Deps[i].table_id[2], Deps[i].table_id[3]>>]])

\* Measure.data_tables
data_tables == tables_of(hashseed, Deps)

\* Measure.description (classmethod)
description(c) == ClassAttr(Resolve(c, "url_docs"), "url_docs")

\* Faulty variant: the tag is read from Measure instead of from cls
category_base(c) == ClassAttr("Measure", "_category")

\* Measure.category (classmethod)
category(c) == ClassAttr(Resolve(c, "_category"), "_category")

\* Faulty variant: the call is bound to the base body, not dispatched on type(self)
EstimateTarget_base(c) == "Measure"

\* instance.estimate(...): the class whose estimate body the call dispatches to
EstimateTarget(c) == Resolve(c, "estimate")

\* The estimate bodies run by a call dispatched to class t.  Relay.estimate is
\* `return super().estimate(nparrays)`; the other client bodies compute a result.
EstimateBodies(t) ==
  IF t = "Relay" THEN <<"Relay", Resolve(Parent("Relay"), "estimate")>> ELSE <<t>>

\* Measure.estimate: raise NotImplementedError
Measure_estimate == "NotImplementedError"

\* Outcome of running the bodies: the base body raises, a client body returns.
EstimateError(bodies) ==
  IF \E i \in 1..Len(bodies) : bodies[i] = "Measure" THEN Measure_estimate ELSE None

\* list.append / list.pop / list.__setitem__ on a list object's contents
list_append(l, d) == Append(l, d)

list_pop(l) == SubSeq(l, 1, Len(l) - 1)

list_setitem(l, i, d) == [l EXCEPT ![i] = d]

\* What one in-place modification by a holder of the list can leave.
Modified(l) ==
  { list_append(l, d) : d \in IF Len(l) < MaxLen THEN Datasets ELSE {} }
    \cup (IF Len(l) > 0 THEN { list_pop(l) } ELSE {})
    \cup { list_setitem(l, i, d) : i \in 1..Len(l), d \in Datasets }

\* ---------------------------------------------------------------- actions
Outcome(o, c, r, e, t) ==
  /\ op' = o
  /\ on' = c
  /\ ret' = r
  /\ err' = e
  /\ trace' = t

Init ==
  /\ heap \in [{ArgList} -> DepLists]
  /\ cls = None
  /\ self_name = None
  /\ self_datasets_required = None
  /\ built = None
  /\ got = None
  /\ op = "none"
  /\ on = None
  /\ ret = None
  /\ err = None
  /\ trace = <<>>
  /\ hashseed \in Seeds

\* m = c(n, argList).  A class with abstract methods left cannot be
\* instantiated: object.__new__ raises TypeError before __init__ runs.
Construct(c, n) ==
  /\ cls = None
  /\ IF AbstractMethods(c) # {}
     THEN /\ Outcome("construct", c, None, "TypeError", <<>>)
          /\ UNCHANGED <<cls, self_name, self_datasets_required, built>>
     ELSE LET fields == Initializer(c, n, ArgList)
          IN  /\ cls' = c
              /\ self_name' = fields.name
              /\ self_datasets_required' = fields.datasets_required
              /\ built' = [name |-> n, datasets_required |-> ArgList]
              /\ Outcome("construct", c, None, None, <<>>)
  /\ UNCHANGED <<heap, got, hashseed>>

\* m.name
GetName ==
  /\ cls # None
  /\ Outcome("name", cls, name, None, <<>>)
  /\ UNCHANGED <<heap, cls, self_name, self_datasets_required, built, got, hashseed>>

\* str(m)
CallStr ==
  /\ cls # None
  /\ Outcome("str", cls, Str, None, <<>>)
  /\ UNCHANGED <<heap, cls, self_name, self_datasets_required, built, got, hashseed>>

\* m.datasets_required
GetDatasetsRequired ==
  /\ cls # None
  /\ got' = datasets_required
  /\ Outcome("datasets_required", cls, datasets_required, None, <<>>)
  /\ UNCHANGED <<heap, cls, self_name, self_datasets_required, built, hashseed>>

\* The entries of l whose source does not occur earlier in l.
RECURSIVE first_by_source(_, _)
first_by_source(l, n) ==
  IF n = 0 THEN <<>>
  ELSE LET rest == first_by_source(l, n - 1)
       IN  IF \E j \in 1..(n - 1) : l[j].source = l[n].source
           THEN rest
           ELSE Append(rest, l[n])

\* Faulty variant: the read deduplicates the stored list in place before deriving
\* the view from it
GetDataSources_inplace ==
  /\ cls # None
  /\ heap' = [heap EXCEPT ![self_datasets_required] = first_by_source(Deps, Len(Deps))]
  /\ Outcome("data_sources", cls, data_sources, None, <<>>)
  /\ UNCHANGED <<cls, self_name, self_datasets_required, built, got, hashseed>>

\* m.data_sources
GetDataSources ==
  /\ cls # None
  /\ Outcome("data_sources", cls, data_sources, None, <<>>)
  /\ UNCHANGED <<heap, cls, self_name, self_datasets_required, built, got, hashseed>>

\* m.data_tables
GetDataTables ==
  /\ cls # None
  /\ Outcome("data_tables", cls, data_tables, None, <<>>)
  /\ UNCHANGED <<heap, cls, self_name, self_datasets_required, built, got, hashseed>>

\* c.category(), on a class or through an instance of it
CallCategory(c) ==
  /\ Outcome("category", c, category(c), None, <<>>)
  /\ UNCHANGED <<heap, cls, self_name, self_datasets_required, built, got, hashseed>>

\* c.description(), on a class or through an instance of it
CallDescription(c) ==
  /\ Outcome("description", c, description(c), None, <<>>)
  /\ UNCHANGED <<heap, cls, self_name, self_datasets_required, built, got, hashseed>>

\* m.estimate(nparrays)
CallEstimate ==
  /\ cls # None
  /\ LET bodies == EstimateBodies(EstimateTarget(cls))
         raised == EstimateError(bodies)
     IN  Outcome("estimate", cls, IF raised = None THEN "result" ELSE None, raised, bodies)
  /\ UNCHANGED <<heap, cls, self_name, self_datasets_required, built, got, hashseed>>

\* The caller modifies, in place, the list it passed (or will pass) to the
\* constructor.
ModifyArgument ==
  /\ \E l \in Modified(heap[ArgList]) : heap' = [heap EXCEPT ![ArgList] = l]
  /\ Outcome("modify_argument", None, None, None, <<>>)
  /\ UNCHANGED <<cls, self_name, self_datasets_required, built, got, hashseed>>

\* The caller modifies, in place, the list m.datasets_required returned.
ModifyReturned ==
  /\ got # None
  /\ \E l \in Modified(heap[got]) : heap' = [heap EXCEPT ![got] = l]
  /\ Outcome("modify_returned", None, None, None, <<>>)
  /\ UNCHANGED <<cls, self_name, self_datasets_required, built, got, hashseed>>

\* A classmethod is called on a class while no instance exists, and through
\* the instance (that is, on type(m)) once there is one.
Receivers == IF cls = None THEN Classes ELSE {cls}

Next ==
  \/ \E c \in Classes, n \in Names : Construct(c, n)
  \/ GetName
  \/ CallStr
  \/ GetDatasetsRequired
  \/ GetDataSources
  \/ GetDataTables
  \/ \E c \in Receivers : CallCategory(c)
  \/ \E c \in Receivers : CallDescription(c)
  \/ CallEstimate
  \/ ModifyArgument
  \/ ModifyReturned

Spec == Init /\ [][Next]_vars

\* ------------------------------------------------------------------ claims
Live == cls # None

\* The list object the constructor was called with, as it is now.
ConstructedWith == heap[built.datasets_required]

Reordered(D, p) == [i \in 1..Len(D) |-> D[p[i]]]

\* C1: data_sources returns a list without repeated elements whose elements
\* are exactly the source fields of the list D the measure was constructed
\* with; every reordering of D and every D with one entry repeated gives a
\* list with the same set of elements.
C1_DataSourcesAreTheDistinctSources ==
  op = "data_sources" =>
    LET D == ConstructedWith
    IN  /\ NoDup(ret)
        /\ Range(ret) = { d.source : d \in Range(D) }
        /\ \A p \in Permutations(1..Len(D)) :
             Range(sources_of(hashseed, Reordered(D, p))) = Range(ret)
        /\ \A i \in 1..Len(D) :
             Range(sources_of(hashseed, Append(D, D[i]))) = Range(ret)

\* C1 witness: data_sources was read on a three-entry list with a repeated
\* source and two distinct sources.
C1_Witness ==
  /\ op = "data_sources"
  /\ Len(ConstructedWith) = 3
  /\ Len(ret) = 2
  /\ ConstructedWith[1] = ConstructedWith[3]

\* C2: data_tables returns a list without repeated elements whose elements
\* are exactly the table_id triples of the list D the measure was constructed
\* with, whatever the order of D and however often an entry is repeated.
C2_DataTablesAreTheDistinctTriples ==
  op = "data_tables" =>
    LET D == ConstructedWith
    IN  /\ NoDup(ret)
        /\ Range(ret) = { d.table_id : d \in Range(D) }
        /\ \A p \in Permutations(1..Len(D)) :
             Range(tables_of(hashseed, Reordered(D, p))) = Range(ret)
        /\ \A i \in 1..Len(D) :
             Range(tables_of(hashseed, Append(D, D[i]))) = Range(ret)

\* C2 witness: data_tables was read on a three-entry list holding two
\* descriptors of the same table and one of another table.
C2_Witness ==
  /\ op = "data_tables"
  /\ Len(ConstructedWith) = 3
  /\ Len(ret) = 2
  /\ \E i, j \in 1..3 : i # j /\ ConstructedWith[i].table_id = ConstructedWith[j].table_id

\* C3 (as claimed): once the measure is constructed, no operation of a holder
\* changes its name or the contents of its dependency list.
C3_NeverMutated ==
  [][Live =>
       /\ self_name' = self_name
       /\ heap'[self_datasets_required'] = heap[self_datasets_required]]_vars

\* Some class from c up to, but not including, Measure defines attribute a.
Overrides(c, a) ==
  \E k \in Classes \ {"Measure"} : IsSubclass(c, k) /\ a \in Defines(k)

\* C4 (as claimed): for a subtype that does not override estimate, the only
\* error in which constructing an instance and calling estimate can end is
\* NotImplementedError.
C4_OnlyNotImplemented ==
  (on \in Classes \ {"Measure"} /\ ~Overrides(on, "estimate") /\ err # None)
    => err = "NotImplementedError"

\* C4 (amended): constructing an instance of a subtype that does not override
\* estimate raises TypeError and creates no instance, so estimate is never
\* called on such an instance; an estimate call ends in NotImplementedError
\* only when an overriding body itself calls the base body.
C4_AbstractInstantiationFails ==
  /\ (op = "construct" /\ ~Overrides(on, "estimate")) => (err = "TypeError" /\ ~Live)
  /\ (op = "construct" /\ Overrides(on, "estimate")) => (err = None /\ cls = on)
  /\ Live => Overrides(cls, "estimate")
  /\ (op = "estimate" /\ err = "NotImplementedError") =>
       /\ Len(trace) >= 2
       /\ trace[1] # "Measure"
       /\ trace[Len(trace)] = "Measure"

\* C4 witness: a subtype of BankingMeasure that defines no estimate was
\* instantiated, and the attempt raised TypeError.
C4_Witness ==
  /\ op = "construct"
  /\ on = "Stub"
  /\ err = "TypeError"
  /\ ~Live

\* C5: an estimate call on an instance whose class overrides estimate is
\* dispatched to the most derived override, never to the base body; the base
\* body runs only after, and called from, an overriding body, and a call that
\* ran the override alone does not raise NotImplementedError.
C5_DispatchReachesOverride ==
  (op = "estimate" /\ Overrides(on, "estimate")) =>
    /\ trace # <<>>
    /\ trace[1] # "Measure"
    /\ IsSubclass(on, trace[1])
    /\ "estimate" \in Defines(trace[1])
    /\ \A k \in Classes :
         (IsSubclass(on, k) /\ "estimate" \in Defines(k)) => IsSubclass(trace[1], k)
    /\ (Len(trace) = 1 => (err = None /\ ret = "result"))

\* C5 witness: estimate was called on an instance of a subtype of
\* BankingMeasure that implements it, and returned a result.
C5_Witness ==
  /\ op = "estimate"
  /\ on = "ZScore"
  /\ trace = <<"ZScore">>
  /\ err = None

\* The tag category() must give for class c: that of the nearest class at or
\* above c whose body assigns _category.
Tag(base) ==
  CASE base = "CorporateFinanceMeasure" -> "CORPORATE_FINANCE"
    [] base = "BankingMeasure"          -> "BANKING"
    [] OTHER                            -> None

NotRefinedBelow(c, base) ==
  \A k \in Classes \ {base} :
    (IsSubclass(c, k) /\ IsSubclass(k, base)) => "_category" \notin Defines(k)

\* C6: category() returns CORPORATE_FINANCE for CorporateFinanceMeasure and
\* its subtypes that do not refine the tag, BANKING for BankingMeasure and its
\* such subtypes, the unset sentinel for Measure and its subtypes that do not
\* refine it; the value is a member of the enumeration or unset, and does not
\* depend on the instance the call goes through.
C6_CategoryIsPerClass ==
  op = "category" =>
    /\ ret \in Category \cup {None}
    /\ \A base \in RepoClasses :
         (IsSubclass(on, base) /\ NotRefinedBelow(on, base)) => ret = Tag(base)

\* C6 witness: category() was called through an instance of a subtype of
\* BankingMeasure holding a non-empty dependency list, and gave BANKING.
C6_Witness ==
  /\ op = "category"
  /\ Live
  /\ on = "ZScore"
  /\ Len(Deps) > 0
  /\ ret = "BANKING"

\* C7: for an instance built with name n, name returns n, and str returns n
\* unless the instance's class overrides __str__, in which case str returns
\* the override's own string.
C7_StrIsName ==
  /\ op = "name" => ret = built.name
  /\ (op = "str" /\ ~Overrides(on, "__str__")) => ret = built.name
  /\ (op = "str" /\ Overrides(on, "__str__")) => ret = <<built.name, "(window=60)">>

\* C7 witness: str was called on an instance of a CorporateFinanceMeasure
\* subtype built with a name different from its class name.
C7_Witness ==
  /\ op = "str"
  /\ on = "ROA"
  /\ built.name = "Beta"
  /\ ret = "Beta"

\* C8: every read of a derived view returns the deduplicated sources (resp.
\* table_id triples) of the list the measure holds at the moment of the read,
\* whatever operations came before it.
C8_ViewsFollowTheHeldList ==
  [][/\ op' = "data_sources" =>
          /\ NoDup(ret')
          /\ Range(ret') = { d.source : d \in Range(heap[self_datasets_required]) }
          /\ Range(ret') = { d.source : d \in Range(heap'[self_datasets_required']) }
     /\ op' = "data_tables" =>
          /\ NoDup(ret')
          /\ Range(ret') = { d.table_id : d \in Range(heap[self_datasets_required]) }
          /\ Range(ret') = { d.table_id : d \in Range(heap'[self_datasets_required']) }]_vars

\* C8 witness: data_tables was read, after the caller had fetched the
\* dependency list, on a list with a repeated table.
C8_Witness ==
  /\ op = "data_tables"
  /\ got # None
  /\ Len(Deps) = 2
  /\ Len(ret) = 1

\* C9: a read of data_sources (data_tables) that follows a read of the same
\* view with nothing in between returns the same list: in the state a read
\* leaves, reading again gives the list just returned.  A read changes
\* neither the name, nor the dependency list (reference, contents, order),
\* nor the class and its category and url_docs, nor the hash seed.
C9_ReadsAreIdempotentAndPure ==
  [][/\ (op = "data_sources" /\ op' = "data_sources") => ret' = ret
     /\ (op = "data_tables" /\ op' = "data_tables") => ret' = ret
     /\ op' = "data_sources" =>
          sources_of(hashseed', heap'[self_datasets_required']) = ret'
     /\ op' = "data_tables" =>
          tables_of(hashseed', heap'[self_datasets_required']) = ret'
     /\ op' \in {"data_sources", "data_tables"} =>
          /\ self_name' = self_name
          /\ self_datasets_required' = self_datasets_required
          /\ heap' = heap
          /\ cls' = cls
          /\ category(cls') = category(cls)
          /\ description(cls') = description(cls)
          /\ hashseed' = hashseed]_vars

\* C9 witness: data_sources was read on a two-entry list with two sources.
C9_Witness ==
  /\ op = "data_sources"
  /\ Len(Deps) = 2
  /\ Len(ret) = 2

SourceConsistent(D) == \A d \in Range(D) : d.table_id[1] = d.source

\* C10: for a measure holding list D, data_sources and data_tables have at
\* most Len(D) elements and are empty exactly when D is; and when every
\* descriptor's table_id carries the descriptor's own source, the first
\* components of data_tables are the data_sources, so that
\* |data_sources| <= |data_tables| <= |D|.
C10_ViewsAgree ==
  Live =>
    LET S == data_sources
        T == data_tables
    IN  /\ Len(S) <= Len(Deps)
        /\ Len(T) <= Len(Deps)
        /\ (S = <<>>) <=> (Deps = <<>>)
        /\ (T = <<>>) <=> (Deps = <<>>)
        /\ SourceConsistent(Deps) =>
             /\ { T[i][1] : i \in 1..Len(T) } = Range(S)
             /\ Len(S) <= Len(T)

\* C10 witness: a measure holds three source-consistent descriptors, two of
\* them equal, over one source and two tables, and data_tables was read.
C10_Witness ==
  /\ op = "data_tables"
  /\ SourceConsistent(Deps)
  /\ Len(Deps) = 3
  /\ Len(ret) = 2
  /\ Len(data_sources) = 1

====
